---- MODULE Spec2Model ----
(***************************************************************************)
(* State-machine model of debugging/open-spans.py: a single pass over      *)
(* line-delimited JSON span events that keeps a signed balance per span    *)
(* identifier (the defaultdict `opened`), followed by the end-of-run loop  *)
(* that is meant to collect the identifiers with a positive balance into   *)
(* `open`.                                                                 *)
(***************************************************************************)
EXTENDS Integers, Sequences, FiniteSets, TLC

(* Longest input (number of read outcomes) explored. *)
MaxLen == 3

(***************************************************************************)
(* Input domain.                                                           *)
(***************************************************************************)

(* Values of obj['type'] in the explored inputs: "new" and two other      *)
(* strings.                                                                *)
Types == {"new", "close", "end"}

(* Decoded JSON values, tagged by the Python type json.loads gives them:  *)
(* "string" (str, v = its characters), "array" (list, v = its elements,   *)
(* themselves decoded values), "number" (int, v = <<its value>>).  Two    *)
(* decoded values are equal in Python exactly when their models are.      *)
Str(chars) == [t |-> "string", v |-> chars]

Arr(elems) == [t |-> "array", v |-> elems]

Num(n) == [t |-> "number", v |-> <<n>>]

(* Values of obj['span'] that are sequences of scalars, or a string. *)
GoodSpans ==
    { Arr(<<Str(<<"a">>), Num(1)>>),
      Arr(<<Str(<<"a">>), Num(2)>>),
      Arr(<<Str(<<"a">>), Str(<<"b">>)>>),
      Str(<<"a", "b">>) }

(* Values of obj['span'] on which lines 14/16 raise TypeError: a number   *)
(* (not iterable) and an array holding an array (unhashable tuple).       *)
BadSpans == { Num(5), Arr(<<Arr(<<Str(<<"a">>)>>)>>) }

SpanValues == GoodSpans \cup BadSpans

(* tuple(x) succeeds on a list or a str, raises TypeError on an int. *)
Iterable(x) == x.t \in {"array", "string"}

(* hash(x) succeeds on a str or an int, raises TypeError on a list. *)
Hashable(x) == x.t \in {"string", "number"}

(* tuple(obj['span']) for an iterable span: iterating a list yields its   *)
(* elements, iterating a str yields its one-character strings; the        *)
(* container kind is dropped.                                             *)
tuple(s) ==
    IF s.t = "string" THEN [i \in 1..Len(s.v) |-> Str(<<s.v[i]>>)]
    ELSE s.v

(* hash(k) of a tuple: every element must be hashable. *)
HashableKey(k) == \A i \in 1..Len(k) : Hashable(k[i])

(* The span identifiers (dict keys) that the explored inputs can produce. *)
Keys == { tuple(s) : s \in { x \in SpanValues : Iterable(x) /\ HashableKey(tuple(x)) } }

(* Decoded objects that carry both keys and a usable span. *)
WellFormedObjs == { [type |-> ty, span |-> s] : ty \in Types, s \in GoodSpans }

(* Decoded objects that carry both keys but an unusable span. *)
BadSpanObjs ==
    { [type |-> "close", span |-> Num(5)],
      [type |-> "new",   span |-> Arr(<<Arr(<<Str(<<"a">>)>>)>>)] }

(* Decoded objects that lack 'type' or 'span'. *)
MalformedObjs ==
    { [span |-> Arr(<<Str(<<"a">>), Num(1)>>)],
      [type |-> "new"] }

(* What one step of `for line in fileinput.input()` can deliver: a line   *)
(* that json.loads decodes to a dict obj ("json"), a line that json.loads *)
(* decodes to a number ("scalar"), a line that json.loads rejects         *)
(* ("garbage"), or a BrokenPipeError raised inside the try block.         *)
Outcomes ==
    { [kind |-> "json", obj |-> o] :
        o \in WellFormedObjs \cup BadSpanObjs \cup MalformedObjs }
    \cup { [kind |-> "scalar"], [kind |-> "garbage"], [kind |-> "epipe"] }

Inputs == UNION { [1..n -> Outcomes] : n \in 0..MaxLen }

(***************************************************************************)
(* The dict `opened`, as the sequence of its <<key, count>> items in      *)
(* insertion order (the order .items() iterates in).                      *)
(***************************************************************************)

Has(tbl, k) == \E i \in 1..Len(tbl) : tbl[i][1] = k

IndexOf(tbl, k) == CHOOSE i \in 1..Len(tbl) : tbl[i][1] = k

(* opened[k] read through the defaultdict: 0 when k is absent. *)
Get(tbl, k) == IF Has(tbl, k) THEN tbl[IndexOf(tbl, k)][2] ELSE 0

KeySet(tbl) == { tbl[i][1] : i \in 1..Len(tbl) }

(* opened[k] = n: overwrite in place, or insert at the end. *)
SetItem(tbl, k, n) ==
    IF Has(tbl, k) THEN [tbl EXCEPT ![IndexOf(tbl, k)] = <<k, n>>]
    ELSE Append(tbl, <<k, n>>)

(* Mutants of Update used to show that the properties depend on it.       *)
Update_closeOnly(tbl, ty, k) ==
    IF ty = "new" THEN SetItem(tbl, k, Get(tbl, k) + 1)
    ELSE IF ty = "close" THEN SetItem(tbl, k, Get(tbl, k) - 1)
    ELSE SetItem(tbl, k, Get(tbl, k))

Update_clamped(tbl, ty, k) ==
    IF ty = "new" THEN SetItem(tbl, k, Get(tbl, k) + 1)
    ELSE SetItem(tbl, k, IF Get(tbl, k) > 0 THEN Get(tbl, k) - 1 ELSE 0)

Update_dropZero(tbl, ty, k) ==
    LET n == IF ty = "new" THEN Get(tbl, k) + 1 ELSE Get(tbl, k) - 1
    IN  IF n = 0 THEN SelectSeq(tbl, LAMBDA e : e[1] # k)
        ELSE SetItem(tbl, k, n)

Update_touchAll(tbl, ty, k) ==
    IF ty = "new" THEN SetItem(tbl, k, Get(tbl, k) + 1)
    ELSE [i \in 1..Len(SetItem(tbl, k, Get(tbl, k))) |->
            <<SetItem(tbl, k, Get(tbl, k))[i][1],
              SetItem(tbl, k, Get(tbl, k))[i][2] - 1>>]

(* Lines 13-16: += 1 when type is "new", -= 1 otherwise. *)
Update(tbl, ty, k) ==
    IF ty = "new" THEN SetItem(tbl, k, Get(tbl, k) + 1)
    ELSE SetItem(tbl, k, Get(tbl, k) - 1)

IsOpen_nonNegative(n) == n >= 0

(* Line 23: the test of the end-of-run loop. *)
IsOpen(n) == n > 0

(***************************************************************************)
(* State.                                                                  *)
(***************************************************************************)
VARIABLES
    input,      \* the read outcomes the run will meet, in source order
    processed,  \* number of lines whose loop body has completed
    opened,     \* the balance table
    pc,         \* "read" (lines 10-16), "emit" (lines 20-24), "exit"
    open,       \* keys of the dict bound at line 20 (unused before it)
    it,         \* 0 before line 22; then index of the item .items() is at
    err,        \* the uncaught exception that ended the run, or "none"
    caught      \* TRUE once the except clause of line 17 has run

vars == <<input, processed, opened, pc, open, it, err, caught>>

(* Process exit status: an uncaught exception makes the interpreter exit  *)
(* with status 1, falling off the end of the script with status 0.        *)
ExitCode == IF err = "none" THEN 0 ELSE 1

Init ==
    /\ input \in Inputs
    /\ processed = 0
    /\ opened = <<>>
    /\ pc = "read"
    /\ open = {}
    /\ it = 0
    /\ err = "none"
    /\ caught = FALSE

HasNext == pc = "read" /\ processed < Len(input)

NextOutcome == input[processed + 1]

(* obj['type'] and obj['span'] both succeed. *)
HasBothKeys(o) ==
    /\ o.kind = "json"
    /\ "type" \in DOMAIN o.obj
    /\ "span" \in DOMAIN o.obj

(* The body of the input loop completes on this line: the object has both *)
(* keys, tuple(obj['span']) succeeds and the tuple can be hashed.         *)
IsEvent(o) ==
    /\ HasBothKeys(o)
    /\ Iterable(o.obj.span)
    /\ HashableKey(tuple(o.obj.span))

(* Lines 11-16 on a line whose body completes. *)
ProcessEvent ==
    /\ HasNext
    /\ IsEvent(NextOutcome)
    /\ opened' = Update(opened, NextOutcome.obj.type, tuple(NextOutcome.obj.span))
    /\ processed' = processed + 1
    /\ UNCHANGED <<input, pc, open, it, err, caught>>

DecodeError_skip ==
    /\ HasNext
    /\ NextOutcome.kind = "garbage"
    /\ processed' = processed + 1
    /\ UNCHANGED <<input, opened, pc, open, it, err, caught>>

(* Line 12 raising json.JSONDecodeError: not a BrokenPipeError, so it     *)
(* leaves the try block uncaught and ends the process.                    *)
DecodeError ==
    /\ HasNext
    /\ NextOutcome.kind = "garbage"
    /\ pc' = "exit"
    /\ err' = "JSONDecodeError"
    /\ UNCHANGED <<input, processed, opened, open, it, caught>>

(* Line 13 (obj['type']) or lines 14/16 (obj['span']) raising KeyError,   *)
(* before `opened` is touched.                                            *)
MissingKey ==
    /\ HasNext
    /\ NextOutcome.kind = "json"
    /\ ~HasBothKeys(NextOutcome)
    /\ pc' = "exit"
    /\ err' = "KeyError"
    /\ UNCHANGED <<input, processed, opened, open, it, caught>>

(* TypeError inside the try block, before `opened` is touched: line 13 on *)
(* a decoded value that is not a dict (int is not subscriptable), or      *)
(* lines 14/16 when tuple(obj['span']) fails (span not iterable) or the   *)
(* tuple cannot be hashed.  Not a BrokenPipeError, so it is uncaught.     *)
SpanTypeError ==
    /\ HasNext
    /\ \/ NextOutcome.kind = "scalar"
       \/ HasBothKeys(NextOutcome) /\ ~IsEvent(NextOutcome)
    /\ pc' = "exit"
    /\ err' = "TypeError"
    /\ UNCHANGED <<input, processed, opened, open, it, caught>>

(* Lines 17-18 then 20 and 22: BrokenPipeError raised in the try block is *)
(* swallowed by `pass`; control falls through to the end-of-run code.     *)
BrokenPipe ==
    /\ HasNext
    /\ NextOutcome.kind = "epipe"
    /\ caught' = TRUE
    /\ pc' = "emit"
    /\ open' = {}
    /\ it' = 1
    /\ UNCHANGED <<input, processed, opened, err>>

(* The input is exhausted: the for loop ends, then lines 20 and 22. *)
EndOfInput ==
    /\ pc = "read"
    /\ processed = Len(input)
    /\ pc' = "emit"
    /\ open' = {}
    /\ it' = 1
    /\ UNCHANGED <<input, processed, opened, err, caught>>

EmitSkip_stuck ==
    /\ pc = "emit"
    /\ it <= Len(opened)
    /\ ~IsOpen(opened[it][2])
    /\ UNCHANGED vars

(* Lines 22-23 on an item whose count fails the test: next item. *)
EmitSkip ==
    /\ pc = "emit"
    /\ it <= Len(opened)
    /\ ~IsOpen(opened[it][2])
    /\ it' = it + 1
    /\ UNCHANGED <<input, processed, opened, pc, open, err, caught>>

(* Line 24 on an item that passes the test: a dict has no attribute       *)
(* `push`, so the call raises AttributeError outside any try block.       *)
EmitPush ==
    /\ pc = "emit"
    /\ it <= Len(opened)
    /\ IsOpen(opened[it][2])
    /\ pc' = "exit"
    /\ err' = "AttributeError"
    /\ UNCHANGED <<input, processed, opened, open, it, caught>>

(* .items() is exhausted: the script ends. *)
EmitDone ==
    /\ pc = "emit"
    /\ it > Len(opened)
    /\ pc' = "exit"
    /\ UNCHANGED <<input, processed, opened, open, it, err, caught>>

Next ==
    \/ ProcessEvent
    \/ DecodeError
    \/ MissingKey
    \/ SpanTypeError
    \/ BrokenPipe
    \/ EndOfInput
    \/ EmitSkip
    \/ EmitPush
    \/ EmitDone

Spec == Init /\ [][Next]_vars

(* The interpreter keeps executing the script until it exits. *)
FairSpec == Spec /\ WF_vars(Next)

(***************************************************************************)
(* Derived quantities used by the properties.                              *)
(***************************************************************************)

(* Lines 11-16 run over a whole sequence of events, from an empty table.  *)
RECURSIVE Run(_)
Run(evs) ==
    IF Len(evs) = 0 THEN <<>>
    ELSE Update(Run(SubSeq(evs, 1, Len(evs) - 1)),
                evs[Len(evs)].obj.type, tuple(evs[Len(evs)].obj.span))

(* Positions of the processed prefix that hold an event for id. *)
EventsFor(id) ==
    { i \in 1..processed : IsEvent(input[i]) /\ tuple(input[i].obj.span) = id }

NewCount(id) == Cardinality({ i \in EventsFor(id) : input[i].obj.type = "new" })

OtherCount(id) == Cardinality({ i \in EventsFor(id) : input[i].obj.type # "new" })

SeenIds == { id \in Keys : EventsFor(id) # {} }

(* Every read outcome of the input is a line with both keys and a span    *)
(* that is a sequence of scalars (or a string).                           *)
WellFormedInput == \A i \in 1..Len(input) : IsEvent(input[i])

IsMalformed(o) == o.kind = "garbage" \/ (o.kind = "json" /\ ~HasBothKeys(o))

MalformedErr == err \in {"JSONDecodeError", "KeyError"}

(* Number of bodies of the end-of-run loop (lines 23-24) executed so far. *)
EmitIterations ==
    IF it = 0 THEN 0
    ELSE (it - 1) + (IF err = "AttributeError" THEN 1 ELSE 0)

Perms(n) == { p \in [1..n -> 1..n] : \A i, j \in 1..n : p[i] = p[j] => i = j }

Permute(seq, p) == [i \in 1..Len(seq) |-> seq[p[i]]]

(***************************************************************************)
(* C1: at every point of the run, for every span identifier, the balance   *)
(* in the table (0 when absent) is the number of "new" events for that     *)
(* identifier processed so far minus the number of its other events.       *)
(***************************************************************************)
C1_Balance ==
    \A id \in Keys : Get(opened, id) = NewCount(id) - OtherCount(id)

C1_Witness ==
    /\ pc = "exit"
    /\ \E id \in Keys : NewCount(id) >= 1 /\ OtherCount(id) >= 2
    /\ \E id \in Keys : EventsFor(id) = {}

(***************************************************************************)
(* C2: when a run over well-formed input ends, an identifier is in the     *)
(* Open Set exactly when its final balance is strictly positive.           *)
(***************************************************************************)
C2_OpenSetIffPositive ==
    (pc = "exit" /\ WellFormedInput)
        => \A id \in Keys : (id \in open) <=> (Get(opened, id) > 0)

(***************************************************************************)
(* C3: once a broken pipe has been caught, no body of the end-of-run loop  *)
(* is executed and the run ends with success, no error being raised.       *)
(***************************************************************************)
C3_BrokenPipeStopsCleanly ==
    caught => /\ EmitIterations = 0
              /\ pc = "exit" => (ExitCode = 0 /\ err = "none")

(***************************************************************************)
(* C4: a run over finite well-formed input ends with exit status 0,        *)
(* whatever the final balances are.                                        *)
(***************************************************************************)
C4_WellFormedExitsZero ==
    (pc = "exit" /\ WellFormedInput) => (ExitCode = 0 /\ err = "none")

(***************************************************************************)
(* C5: a line that is not valid JSON, or whose object lacks type or span,  *)
(* aborts the run at that line with a failure status: the broken-pipe      *)
(* handler does not run, the table and the count of processed lines stay   *)
(* as they were before the line, the end-of-run loop is never entered,     *)
(* and nothing happens afterwards.                                         *)
(***************************************************************************)
C5_MalformedIsFatal ==
    /\ [](MalformedErr =>
            /\ pc = "exit"
            /\ ExitCode = 1
            /\ ~caught
            /\ it = 0
            /\ processed < Len(input)
            /\ IsMalformed(input[processed + 1]))
    /\ [][ /\ (HasNext /\ IsMalformed(NextOutcome)) =>
                /\ pc' = "exit"
                /\ MalformedErr'
                /\ opened' = opened
                /\ processed' = processed
           /\ pc = "exit" => UNCHANGED vars ]_vars

C5_Witness ==
    /\ MalformedErr
    /\ processed >= 1
    /\ processed + 1 < Len(input)
    /\ \E id \in Keys : Get(opened, id) > 0

(***************************************************************************)
(* C6: after the whole of a well-formed input has been processed, every    *)
(* permutation of that input yields the same key set and the same balance  *)
(* for every identifier.                                                   *)
(***************************************************************************)
C6_OrderIndependent ==
    (pc # "read" /\ WellFormedInput) =>
        \A p \in Perms(Len(input)) :
            /\ KeySet(Run(Permute(input, p))) = KeySet(opened)
            /\ \A id \in Keys :
                 Get(Run(Permute(input, p)), id) = Get(opened, id)

C6_Witness ==
    /\ pc = "exit"
    /\ WellFormedInput
    /\ Len(input) >= 3
    /\ input[1].obj.type # "new"
    /\ \E i \in 2..Len(input) :
         /\ input[i].obj.type = "new"
         /\ tuple(input[i].obj.span) = tuple(input[1].obj.span)
    /\ Len(opened) >= 2

(***************************************************************************)
(* C7 as stated: whenever the end-of-run loop has been entered, the run    *)
(* ends in an error.                                                       *)
(***************************************************************************)
C7_EmissionAlwaysFails ==
    (pc = "exit" /\ it >= 1) => err = "AttributeError"

(***************************************************************************)
(* C7 amended: the end-of-run loop ends in AttributeError exactly when     *)
(* some identifier has a strictly positive balance, at the first such item *)
(* in insertion order; otherwise it finishes; open stays empty either way. *)
(***************************************************************************)
C7_EmissionFailsIffPositive ==
    (pc = "exit" /\ it >= 1) =>
        /\ (err = "AttributeError") <=> (\E id \in Keys : Get(opened, id) > 0)
        /\ err \in {"AttributeError", "none"}
        /\ open = {}
        /\ err = "AttributeError" =>
              /\ it <= Len(opened)
              /\ opened[it][2] > 0
              /\ \A j \in 1..(it - 1) : opened[j][2] <= 0
        /\ err = "none" => it = Len(opened) + 1

C7_Witness ==
    /\ pc = "exit"
    /\ err = "AttributeError"
    /\ it >= 2
    /\ opened[1][2] = 0

(***************************************************************************)
(* C8: the key set of the table is at every point exactly the set of       *)
(* identifiers seen so far, keys are never removed, an entry is created    *)
(* with balance 1 or -1, and no identifier with a balance of zero or less  *)
(* is in the Open Set.                                                     *)
(***************************************************************************)
C8_KeysNeverRemoved ==
    /\ [](/\ KeySet(opened) = SeenIds
          /\ Len(opened) = Cardinality(KeySet(opened))
          /\ \A id \in Keys : Get(opened, id) <= 0 => id \notin open)
    /\ [][ /\ KeySet(opened) \subseteq KeySet(opened')
           /\ \A id \in KeySet(opened') \ KeySet(opened) :
                Get(opened', id) \in {1, -1} ]_vars

C8_Witness ==
    /\ pc = "exit"
    /\ \E id \in KeySet(opened) : Get(opened, id) = 0
    /\ \E id \in KeySet(opened) : Get(opened, id) < 0 /\ NewCount(id) = 0

(***************************************************************************)
(* C9: processing one event changes the balance of the event's own         *)
(* identifier by +1 for type "new" and by -1 for any other type, leaves    *)
(* every other balance and key alone; every other step, the end-of-run     *)
(* loop included, leaves the table unchanged.                              *)
(***************************************************************************)
C9_Frame ==
    [][ /\ processed' = processed + 1 =>
             LET o == input[processed + 1]
                 k == tuple(o.obj.span)
                 d == IF o.obj.type = "new" THEN 1 ELSE -1
             IN  /\ Get(opened', k) = Get(opened, k) + d
                 /\ \A id \in Keys \ {k} : Get(opened', id) = Get(opened, id)
                 /\ KeySet(opened') = KeySet(opened) \cup {k}
        /\ processed' = processed => opened' = opened
        /\ pc = "emit" => opened' = opened ]_vars

C9_Witness ==
    /\ processed >= 3
    /\ input[processed].obj.type = "end"
    /\ Len(opened) >= 2
    /\ Get(opened, tuple(input[processed].obj.span)) = -1

(***************************************************************************)
(* C10: every run ends; lines are consumed one at a time in source order   *)
(* and never again, the end-of-run loop advances one item at a time over   *)
(* the table, the run never returns to reading, and nothing follows the    *)
(* exit.                                                                   *)
(***************************************************************************)
C10_Terminates ==
    /\ <>(pc = "exit")
    /\ [](processed <= Len(input) /\ it <= Len(opened) + 1)
    /\ [][ /\ processed' \in {processed, processed + 1}
           /\ it' \in {it, it + 1}
           /\ pc = "read" => it = 0
           /\ pc # "read" => (pc' # "read" /\ processed' = processed)
           /\ (pc = "emit" /\ pc' = "emit") => it' = it + 1
           /\ pc = "exit" => UNCHANGED vars ]_vars

C10_Witness ==
    /\ pc = "exit"
    /\ err = "none"
    /\ processed = Len(input)
    /\ Len(input) >= 3
    /\ it = Len(opened) + 1
    /\ Len(opened) >= 2

====
